---- MODULE Spec2Model ----
(***************************************************************************)
(* Density-based outlier detection of etna                                 *)
(* (etna/analysis/outliers/density_outliers.py).                           *)
(*                                                                         *)
(* Three state machines are modelled:                                      *)
(*   Spec          one call of get_segment_density_outliers_indices, one   *)
(*                 step per iteration of its loop over the positions;      *)
(*   SpecAnomalies one call of get_anomalies_density, one step per         *)
(*                 iteration of its loop over the segments, the columns    *)
(*                 of the dataset drawn as they are read;                  *)
(*   SpecDataset   one call of get_anomalies_density on a dataset held in  *)
(*                 the state, the detector running stepwise inside it.     *)
(* A fourth, SpecHoliday, is one call of HolidayTransform._transform       *)
(* (etna/transforms/timestamp/holiday.py).                                 *)
(* SpecFair is Spec with the running call taking its steps; SpecSamples    *)
(* is one iteration to the end of the generator make_samples of            *)
(* DeepARNetNew and TFTNativeNet (etna/models/nn).                         *)
(*                                                                         *)
(* Values are small naturals and arithmetic is exact, but for the mean of   *)
(* equal values in np.std, which may round (MayRound).  Positions are      *)
(* 0-based as in the code; TLA+                                            *)
(* sequences are 1-based, so position i of an array is element i + 1.      *)
(* A distance threshold is carried as the rational num/den of its SQUARE,  *)
(* because distance_coef * std(series) is irrational in general: for       *)
(* non-negative distances, dist < threshold iff dist^2 * den < num.        *)
(***************************************************************************)
EXTENDS Integers, Sequences, FiniteSets, TLC

\* ------------------------------------------------------------- bounds
MaxLen == 5
MaxWindow == 4
MaxThr == 3
MaxNeighbors == 2
MaxCoef == 1
DsLen == 3
MaxTsLen == 9
MaxPeriods == 4
MaxRows == 6
MaxEncoder == 3
MaxDecoder == 3

\* ------------------------------------------------ defaults of the code
DefaultWindowSize == 15
DefaultDistanceCoef == 3

\* ------------------------------------------------------------ helpers
Max(a, b) == IF a >= b THEN a ELSE b
Min(a, b) == IF a <= b THEN a ELSE b

\* int(bool) of Python / numpy
BoolToInt(b) == IF b THEN 1 ELSE 0

\* seq[a:b] of Python for 0 <= a: the end is clamped to the length
PySlice(seq, a, b) == SubSeq(seq, a + 1, Min(b, Len(seq)))

\* seq[i] of Python: negative i counts from the end; outside -len..len-1
\* the access raises IndexError
InRange(seq, i) == -Len(seq) <= i /\ i < Len(seq)
PyGet(seq, i) == IF i < 0 THEN seq[Len(seq) + i + 1] ELSE seq[i + 1]

\* Faulty variant of CumSum: the sums of the elements before each one
cumsum_exclusive(c) ==
    LET f[k \in 0..Len(c)] == IF k = 0 THEN 0 ELSE f[k - 1] + BoolToInt(c[k])
    IN  [k \in 1..Len(c) |-> f[k - 1]]

\* np.cumsum of a boolean array
CumSum(c) ==
    LET f[k \in 0..Len(c)] == IF k = 0 THEN 0 ELSE f[k - 1] + BoolToInt(c[k])
    IN  [k \in 1..Len(c) |-> f[k]]

\* The values of the series are two-level.  The verdict of a position
\* depends on the series only through the closeness flags of its window, and
\* two levels with the thresholds 0, 1/2, 1 and 3/2 produce every vector of
\* flags, with distances below, at and above the threshold.
Levels == {0, 1}

Series == UNION {[1..len -> Levels] : len \in 1..MaxLen}

\* ------------------------------------------------- distance functions
\* The default distance: np.abs(x - y)
absolute_difference_distance(x, y) == IF x >= y THEN x - y ELSE y - x

\* Caller-supplied distances the detector is exercised with: the default,
\* an asymmetric one, and one under which a value is far from itself
DistanceFuncs == {"abs", "asym", "nonreflexive"}

\* A caller-supplied distance_func whose result cannot be compared with the
\* threshold (wrong type): is_close raises for it
Malformed == "malformed"

Distance(f, x, y) ==
    CASE f = "abs" -> absolute_difference_distance(x, y)
      [] f = "asym" -> IF x >= y THEN x - y ELSE 2 * (y - x)
      [] f = "nonreflexive" ->
            IF x = y THEN 2 ELSE absolute_difference_distance(x, y)

\* distance_threshold = t / 2 for a natural t
Thr(t) == [num |-> t * t, den |-> 4]
ThrLess(s, t) == s.num * t.den < t.num * s.den

\* The arguments of one call of the detector
Args(s, w, t, k, f) ==
    [series |-> s, window_size |-> w, distance_threshold |-> t,
     n_neighbors |-> k, distance_func |-> f]

\* ------------------------------ get_segment_density_outliers_indices
\* Faulty variants of is_close: "<=" for "<", and ">" for "<"
is_close_le(a, item1, item2) ==
    LET dist == Distance(a.distance_func, item1, item2)
    IN  dist * dist * a.distance_threshold.den <= a.distance_threshold.num

is_close_gt(a, item1, item2) ==
    LET dist == Distance(a.distance_func, item1, item2)
    IN  dist * dist * a.distance_threshold.den > a.distance_threshold.num

\* distance_func(item1, item2) < distance_threshold
is_close(a, item1, item2) ==
    LET dist == Distance(a.distance_func, item1, item2)
    IN  dist * dist * a.distance_threshold.den < a.distance_threshold.num

\* Faulty variant of start_idxs: the window of idx - window_size + 1 is the first
start_idxs_plus_one(a, i) == Max(0, i - a.window_size + 1)

\* Faulty variant of start_idxs: every window starts at the first position
start_idxs_from_zero(a, i) == 0

start_idxs(a, i) == Max(0, i - a.window_size)

\* Faulty variants of end_idxs: the "+ 1" forgotten, and the clamp at 0 forgotten
end_idxs_no_plus_one(a, i) == Max(0, Min(i, Len(a.series) - a.window_size))

end_idxs_no_clamp(a, i) == Min(i, Len(a.series) - a.window_size) + 1

\* Faulty variant of end_idxs: the window that ends at the last position is
\* left out
end_idxs_without_last(a, i) ==
    Max(0, Min(i, Len(a.series) - a.window_size - 1)) + 1

end_idxs(a, i) == Max(0, Min(i, Len(a.series) - a.window_size)) + 1

deltas(a, i) == end_idxs(a, i) - start_idxs(a, i)

\* Faulty variant of Window: the slice ends one element early
window_without_last(a, i) ==
    PySlice(a.series, start_idxs(a, i),
            start_idxs(a, i) + a.window_size + deltas(a, i) - 2)

\* series[start_idx : start_idx + window_size + delta - 1]
Window(a, i) ==
    PySlice(a.series, start_idxs(a, i),
            start_idxs(a, i) + a.window_size + deltas(a, i) - 1)

\* Faulty variant of Closeness: the elements are compared with the first
\* element of the slice, not with the item
closeness_to_first(a, i) ==
    LET W == Window(a, i)
    IN  [k \in 1..Len(W) |-> is_close(a, W[k], W[1])]

\* is_close(series[start_idx : start_idx + window_size + delta - 1], item)
Closeness(a, i) ==
    LET W == Window(a, i)
    IN  [k \in 1..Len(W) |-> is_close(a, W[k], a.series[i + 1])]

\* The array reads of placement d are inside their arrays: num_close[-delta + d],
\* num_close[d] and, when the placement does not start at idx, closeness[d]
AccessOK(cl, nc, start_idx, delta, i, d) ==
    /\ InRange(nc, -delta + d)
    /\ InRange(nc, d)
    /\ start_idx + d # i => InRange(cl, d)

\* Faulty variant of est_neighbors: the left edge is counted in every
\* placement, the position itself included
est_neighbors_with_left_edge(cl, nc, start_idx, delta, i, d) ==
    PyGet(nc, -delta + d) - PyGet(nc, d) + BoolToInt(PyGet(cl, d))

\* Faulty variant of est_neighbors: the "- 1" of the correction forgotten
est_neighbors_self_counted(cl, nc, start_idx, delta, i, d) ==
    PyGet(nc, -delta + d) - PyGet(nc, d)
      + (IF start_idx + d # i THEN BoolToInt(PyGet(cl, d)) ELSE 0)

\* est_neighbors of placement d, as compared against n_neighbors
est_neighbors(cl, nc, start_idx, delta, i, d) ==
    PyGet(nc, -delta + d) - PyGet(nc, d)
      + (IF start_idx + d # i THEN BoolToInt(PyGet(cl, d)) - 1 ELSE 0)

\* Faulty variant of Enough: "==" for ">="
EnoughExactly(e, n_neighbors) == e = n_neighbors

\* Faulty variant of Enough: ">" for ">="
EnoughStrictly(e, n_neighbors) == e > n_neighbors

\* "if est_neighbors >= n_neighbors": the placement has enough neighbours
Enough(e, n_neighbors) == e >= n_neighbors

\* Faulty variant of Scan: only the first placement is evaluated
scan_first_only(cl, nc, start_idx, delta, n_neighbors, i, d, acc) ==
    IF delta <= 0
    THEN [ests |-> acc, outlier |-> TRUE, raised |-> FALSE]
    ELSE IF ~AccessOK(cl, nc, start_idx, delta, i, 0)
    THEN [ests |-> acc, outlier |-> TRUE, raised |-> TRUE]
    ELSE LET e == est_neighbors(cl, nc, start_idx, delta, i, 0)
         IN  [ests |-> <<e>>, outlier |-> ~Enough(e, n_neighbors), raised |-> FALSE]

\* The loop "for d in range(delta)" with its break: the estimates compared
\* so far, the verdict, and whether an array read raised
RECURSIVE Scan(_, _, _, _, _, _, _, _)
Scan(cl, nc, start_idx, delta, n_neighbors, i, d, acc) ==
    IF d >= delta
    THEN [ests |-> acc, outlier |-> TRUE, raised |-> FALSE]
    ELSE IF ~AccessOK(cl, nc, start_idx, delta, i, d)
    THEN [ests |-> acc, outlier |-> TRUE, raised |-> TRUE]
    ELSE LET e == est_neighbors(cl, nc, start_idx, delta, i, d)
         IN  IF Enough(e, n_neighbors)
             THEN [ests |-> Append(acc, e), outlier |-> FALSE, raised |-> FALSE]
             ELSE Scan(cl, nc, start_idx, delta, n_neighbors, i, d + 1, Append(acc, e))

\* The body of the loop over the positions, for position i
Placements(a, i) ==
    IF a.distance_func = Malformed
    THEN [ests |-> <<>>, outlier |-> TRUE, raised |-> TRUE]
    ELSE LET cl == Closeness(a, i)
         IN  Scan(cl, CumSum(cl), start_idxs(a, i), deltas(a, i),
                  a.n_neighbors, i, 0, <<>>)

\* Faulty variant of append: the position is put in front
prepend(list, i) == <<i>> \o list

\* outliers_indices.append(idx)
append(list, i) == Append(list, i)

\* The whole call: the list returned, or raised
RECURSIVE DetectFrom(_, _, _)
DetectFrom(a, i, acc) ==
    IF i >= Len(a.series)
    THEN [raised |-> FALSE, indices |-> acc]
    ELSE LET r == Placements(a, i)
         IN  IF r.raised
             THEN [raised |-> TRUE, indices |-> <<>>]
             ELSE DetectFrom(a, i + 1, IF r.outlier THEN append(acc, i) ELSE acc)

\* Faulty variant of the call: an empty series is refused with an exception
detector_empty_raises(a) ==
    IF Len(a.series) = 0
    THEN [raised |-> TRUE, indices |-> <<>>]
    ELSE DetectFrom(a, 0, <<>>)

get_segment_density_outliers_indices(a) == DetectFrom(a, 0, <<>>)

\* ---------------------------------------------- get_anomalies_density
\* A missing value of a column
NaN == -1

\* ts.segments
Segments == <<"segment_0", "segment_1">>

\* ts[:, seg, in_column]: one value or NaN per timestamp; the timestamps of
\* the dataset are 1..DsLen
Columns == [1..DsLen -> {NaN} \cup Levels]

\* A value that is no number (a string): np.std raises for a column of them
Text == -2

Numeric(series) == \A k \in 1..Len(series) : series[k] # Text

\* .dropna(): the rows that hold a value, index and values in lockstep
dropna(column) ==
    LET kept == SelectSeq([t \in 1..Len(column) |-> t],
                          LAMBDA t : column[t] # NaN)
    IN  [index |-> kept, values |-> [k \in 1..Len(kept) |-> column[kept[k]]]]

SumSeq(seq) ==
    LET f[k \in 0..Len(seq)] == IF k = 0 THEN 0 ELSE f[k - 1] + seq[k]
    IN  f[Len(seq)]

AllEqual(series) == \A j, k \in 1..Len(series) : series[j] = series[k]

\* The float mean of equal values v is v itself only when neither the
\* running sum nor the quotient rounds.  One, two or four equal values never
\* round, nor do zeros; three, five, six, seven, nine or ten do for some v
\* and not for others (three 5.0 have mean 5.0, three 0.1 have mean
\* 0.10000000000000002), and eight do or do not with the order in which the
\* build's np.add.reduce adds them.
\* The model's values are multiples of a unit it leaves open (1.0, 0.1, ...),
\* so an all-equal non-zero series of such a length may go either way.
MayRound(series) ==
    Len(series) \notin {0, 1, 2, 4} /\ AllEqual(series) /\ series[1] # 0

\* Faulty variant of std_squared: the sample deviation (ddof=1)
std_squared_sample(series, rounds) ==
    LET len == Len(series)
        total == SumSeq(series)
    IN  IF rounds
        THEN [num |-> 1, den |-> (MaxCoef + 1) * (MaxCoef + 1)]
        ELSE [num |-> SumSeq([k \in 1..len |->
                         (len * series[k] - total) * (len * series[k] - total)]),
              den |-> len * len * (len - 1)]

\* np.std(series) ** 2 = mean(|x - mean(x)| ** 2), as the rational num/den:
\* sum((len * x - sum(x)) ** 2) / len ** 3; 0/0 (nan) for the empty series.
\* For equal values whose float mean rounds, a positive residue (1.4e-17
\* for three 0.1) below every distance between distinct values: coef times
\* it stays below 1 for coef <= MaxCoef.
std_squared(series, rounds) ==
    LET len == Len(series)
        total == SumSeq(series)
    IN  IF rounds
        THEN [num |-> 1, den |-> (MaxCoef + 1) * (MaxCoef + 1)]
        ELSE [num |-> SumSeq([k \in 1..len |->
                         (len * series[k] - total) * (len * series[k] - total)]),
              den |-> len * len * len]

\* "if series_std": true of every float but 0.0, nan included
std_truthy(series, rounds) ==
    Len(series) = 0 \/ std_squared(series, rounds).num # 0

\* distance_coef * series_std, squared, for distance_coef >= 0
scaled_std(distance_coef, series, rounds) ==
    [num |-> distance_coef * distance_coef * std_squared(series, rounds).num,
     den |-> std_squared(series, rounds).den]

\* Faulty variant of timestamps_of: the index of the frame before dropna
timestamps_of_raw(column) == [t \in 1..Len(column) |-> t]

\* segment_df.index.values
timestamps_of(column) == dropna(column).index

\* list(timestamps[outliers_idxs])
take(timestamps, outliers_idxs) ==
    [j \in 1..Len(outliers_idxs) |-> timestamps[outliers_idxs[j] + 1]]

\* Faulty variant of store: the mapping is created anew for each segment
store_reset(mapping, seg, outliers_idxs, timestamps) ==
    IF Len(outliers_idxs) # 0
    THEN [s \in {seg} |-> take(timestamps, outliers_idxs)]
    ELSE <<>>

\* Faulty variant of store: the test "if len(outliers_idxs)" dropped
store_always(mapping, seg, outliers_idxs, timestamps) ==
    [s \in DOMAIN mapping \cup {seg} |->
        IF s = seg THEN take(timestamps, outliers_idxs) ELSE mapping[s]]

\* if len(outliers_idxs): outliers_per_segment[seg] = list(timestamps[outliers_idxs])
store(mapping, seg, outliers_idxs, timestamps) ==
    IF Len(outliers_idxs) # 0
    THEN [s \in DOMAIN mapping \cup {seg} |->
             IF s = seg THEN take(timestamps, outliers_idxs) ELSE mapping[s]]
    ELSE mapping

\* Faulty variant of on_exception: the error is swallowed and the segment
\* passed over
on_exception_skip == "stored"

\* The loop body has no try/except: an exception raised in it leaves
\* get_anomalies_density
on_exception == "raised"

\* Faulty variant of dataset_after_read: dropna(inplace=True) on the frame
dataset_after_dropna_inplace(dataset, i) ==
    [dataset EXCEPT ![i].values = dropna(@).values]

\* ts after "ts[:, seg, in_column].dropna()": dropna returns a new frame
dataset_after_read(dataset, i) == dataset

\* The detector call of lines 139-145 for one column
detector_args(c, col, rounds) ==
    Args(dropna(col).values, c.window_size,
         scaled_std(c.distance_coef, dropna(col).values, rounds),
         c.n_neighbors, c.distance_func)

\* ----------------------------------------------------- HolidayTransform
\* (etna/transforms/timestamp/holiday.py)
\* Strings that the code takes apart are sequences of characters.
DigitChars == <<"0", "1", "2", "3", "4", "5", "6", "7", "8", "9">>

\* str.isdigit of one character
IsDigit(c) == \E v \in 1..Len(DigitChars) : DigitChars[v] = c

\* f"{count}" of a natural
RECURSIVE Str(_)
Str(k) ==
    IF k < 10 THEN <<DigitChars[k + 1]>>
    ELSE Str(k \div 10) \o <<DigitChars[(k % 10) + 1]>>

\* int(s) of a string of digits
RECURSIVE ParseInt(_)
ParseInt(str) ==
    IF str = <<>> THEN 0
    ELSE 10 * ParseInt(SubSeq(str, 1, Len(str) - 1))
           + (CHOOSE v \in 0..9 : DigitChars[v + 1] = str[Len(str)])

\* "".join(itertools.takewhile(str.isdigit, s))
RECURSIVE TakeWhileDigit(_)
TakeWhileDigit(str) ==
    IF str = <<>> \/ ~IsDigit(Head(str)) THEN <<>>
    ELSE <<Head(str)>> \o TakeWhileDigit(Tail(str))

\* "".join(itertools.dropwhile(str.isdigit, s))
RECURSIVE DropWhileDigit(_)
DropWhileDigit(str) ==
    IF str = <<>> \/ ~IsDigit(Head(str)) THEN str
    ELSE DropWhileDigit(Tail(str))

\* The calendar: a date is the number of days since 2019-01-01 (a Tuesday);
\* a timestamp is a date and a minute of the day
Years == 2019..2025

IsLeap(y) == y % 4 = 0 /\ (y % 100 # 0 \/ y % 400 = 0)

DaysInMonth(y, m) ==
    CASE m \in {1, 3, 5, 7, 8, 10, 12} -> 31
      [] m \in {4, 6, 9, 11} -> 30
      [] m = 2 -> IF IsLeap(y) THEN 29 ELSE 28

\* The date of year y, month m, day d
Ordinal(y, m, d) ==
    SumSeq([k \in 1..(y - 2019) |-> IF IsLeap(2018 + k) THEN 366 ELSE 365])
      + SumSeq([k \in 1..(m - 1) |-> DaysInMonth(y, k)])
      + (d - 1)

\* Year, month and day of a date
YMD(o) ==
    LET y == CHOOSE q \in Years : Ordinal(q, 1, 1) <= o /\ o < Ordinal(q + 1, 1, 1)
        m == CHOOSE q \in 1..12 :
                 /\ Ordinal(y, q, 1) <= o
                 /\ o < Ordinal(y, q, 1) + DaysInMonth(y, q)
    IN  [y |-> y, m |-> m, d |-> o - Ordinal(y, m, 1) + 1]

\* date.weekday(): Monday is 0
Weekday(o) == (o + 1) % 7

\* The first day of the month k months after month m of year y
AddMonths(y, m, k) ==
    Ordinal(y + ((m - 1 + k) \div 12), ((m - 1 + k) % 12) + 1, 1)

WeekdayAliases ==
    << <<"M", "O", "N">>, <<"T", "U", "E">>, <<"W", "E", "D">>, <<"T", "H", "U">>,
       <<"F", "R", "I">>, <<"S", "A", "T">>, <<"S", "U", "N">> >>

MonthAliases ==
    << <<"J", "A", "N">>, <<"F", "E", "B">>, <<"M", "A", "R">>, <<"A", "P", "R">>,
       <<"M", "A", "Y">>, <<"J", "U", "N">>, <<"J", "U", "L">>, <<"A", "U", "G">>,
       <<"S", "E", "P">>, <<"O", "C", "T">>, <<"N", "O", "V">>, <<"D", "E", "C">> >>

\* holidays.country_holidays(iso_code): the fixed-date public holidays of two
\* countries, by <<month, day>>, with their names
Calendars ==
    [RUS |-> [md \in ({1} \X (1..8)) \cup {<<2, 23>>, <<3, 8>>, <<5, 1>>, <<5, 9>>,
                                          <<6, 12>>, <<11, 4>>} |-> "holiday_ru"],
     US |-> [md \in {<<1, 1>>, <<7, 4>>, <<11, 11>>, <<12, 25>>} |-> "holiday_us"]]

\* "x in self.holidays": by the calendar date of x
IsHoliday(iso_code, o) ==
    LET r == YMD(o) IN <<r.m, r.d>> \in DOMAIN Calendars[iso_code]

\* self.holidays[x]
HolidayName(iso_code, o) ==
    LET r == YMD(o) IN Calendars[iso_code][<<r.m, r.d>>]

\* pandas' _maybe_add_count: f"{count}{base}" unless count is 1
maybe_add_count(base, count) == IF count # 1 THEN Str(count) \o base ELSE base

\* pd.infer_freq of an ascending index of at least 3 timestamps, with the
\* aliases of pandas < 2.2; <<>> stands for None.  The calendar rules
\* (annual, quarterly, monthly) come first when the smallest step is whole
\* days, then the weekly and daily rule, then hours and minutes.  Business
\* frequencies are left out: the model's indexes contain none.
infer_freq(index) ==
    LET len == Len(index)
        mins == [i \in 1..len |-> index[i].day * 1440 + index[i].minute]
        deltas_ == {mins[i + 1] - mins[i] : i \in 1..(len - 1)}
        delta == CHOOSE x \in deltas_ : \A z \in deltas_ : x <= z
        ymd == [i \in 1..len |-> YMD(index[i].day)]
        ydiffs == {ymd[i + 1].y - ymd[i].y : i \in 1..(len - 1)}
        mdiffs == {(ymd[i + 1].y * 12 + ymd[i + 1].m) - (ymd[i].y * 12 + ymd[i].m) :
                      i \in 1..(len - 1)}
        one(set) == CHOOSE x \in set : TRUE
        calendar_end ==
            \A i \in 1..len : ymd[i].d = DaysInMonth(ymd[i].y, ymd[i].m)
        calendar_start == \A i \in 1..len : ymd[i].d = 1
        positioned == calendar_end \/ calendar_start
        suffix == IF calendar_end THEN <<>> ELSE <<"S">>
        rep_stamp == ymd[1]
        annual ==
            /\ Cardinality(ydiffs) = 1
            /\ Cardinality({ymd[i].m : i \in 1..len}) = 1
            /\ positioned
        quarterly == Cardinality(mdiffs) = 1 /\ one(mdiffs) % 3 = 0 /\ positioned
        monthly == Cardinality(mdiffs) = 1 /\ positioned
        quarter_month == CASE rep_stamp.m % 3 = 0 -> 12
                           [] rep_stamp.m % 3 = 2 -> 11
                           [] rep_stamp.m % 3 = 1 -> 10
    IN  IF delta % 1440 = 0
        THEN IF annual
             THEN maybe_add_count(<<"A">> \o suffix \o <<"-">> \o MonthAliases[rep_stamp.m],
                                  one(ydiffs))
             ELSE IF quarterly
             THEN maybe_add_count(<<"Q">> \o suffix \o <<"-">> \o MonthAliases[quarter_month],
                                  one(mdiffs) \div 3)
             ELSE IF monthly
             THEN maybe_add_count(<<"M">> \o suffix, one(mdiffs))
             ELSE IF Cardinality(deltas_) # 1
             THEN <<>>
             ELSE IF (delta \div 1440) % 7 = 0
             THEN maybe_add_count(<<"W", "-">> \o WeekdayAliases[Weekday(index[1].day) + 1],
                                  (delta \div 1440) \div 7)
             ELSE maybe_add_count(<<"D">>, delta \div 1440)
        ELSE IF Cardinality(deltas_) # 1
        THEN <<>>
        ELSE IF delta % 60 = 0
        THEN maybe_add_count(<<"H">>, delta \div 60)
        ELSE maybe_add_count(<<"T">>, delta)

\* HolidayTransformMode
Modes == {"binary", "category", "days_count"}

\* lines 101-103
letters_part(freq) == DropWhileDigit(freq)

numbers_part(freq) ==
    IF TakeWhileDigit(freq) = <<>> THEN <<"1">> ELSE TakeWhileDigit(freq)

\* lines 106-119: the period of a date as its first day and the day after
\* its last, or not ok when the frequency is not one of those listed
listed_period(freq, date) ==
    LET letters == letters_part(freq)
        k == ParseInt(numbers_part(freq))
        r == YMD(date.day)
    IN  IF letters = <<"W">>
        THEN [ok |-> TRUE, start |-> date.day - Weekday(date.day),
              new |-> date.day - Weekday(date.day) + 7 * k]
        ELSE IF letters \in {<<"M">>, <<"M", "S">>}
        THEN [ok |-> TRUE, start |-> Ordinal(r.y, r.m, 1), new |-> AddMonths(r.y, r.m, k)]
        ELSE IF letters \in {<<"Q", "-", "D", "E", "C">>, <<"Q", "S", "-", "O", "C", "T">>,
                             <<"Q", "S", "-", "D", "E", "C">>,
                             <<"Q", "S", "-", "O", "S", "T">>}
        THEN [ok |-> TRUE, start |-> Ordinal(r.y, r.m, 1),
              new |-> AddMonths(r.y, r.m, 3 * k)]
        ELSE IF letters \in {<<"A", "-", "D", "E", "C">>, <<"A", "S", "-", "J", "A", "N">>}
        THEN [ok |-> TRUE, start |-> Ordinal(r.y, 1, 1), new |-> Ordinal(r.y + k, 1, 1)]
        ELSE [ok |-> FALSE, start |-> 0, new |-> 0]

\* Faulty variant of period: a daily frequency is given periods of k days
period_with_days(freq, date) ==
    IF letters_part(freq) = <<"D">>
    THEN [ok |-> TRUE, start |-> date.day,
          new |-> date.day + ParseInt(numbers_part(freq))]
    ELSE listed_period(freq, date)

period(freq, date) == listed_period(freq, date)

\* lines 120-122: the share of holidays among the days start .. new - 1 of
\* the period: its days that are holidays are the holidays, over the years
\* the period touches, that fall inside it
holidays_freq(iso_code, p) ==
    LET years == YMD(p.start).y..YMD(p.new - 1).y
        count_holidays ==
            Cardinality({ymd \in years \X DOMAIN Calendars[iso_code] :
                /\ p.start <= Ordinal(ymd[1], ymd[2][1], ymd[2][2])
                /\ Ordinal(ymd[1], ymd[2][1], ymd[2][2]) <= p.new - 1})
    IN  [num |-> count_holidays, den |-> p.new - p.start]

NoError == [type |-> "", message |-> ""]

\* line 93
FrequencyError ==
    [type |-> "ValueError",
     message |-> "In default mode frequency of data should be no more than daily."]

\* line 119
UnsupportedError ==
    [type |-> "ValueError",
     message |-> "days_count mode don't support frequency less than Weekly"]

\* The indexes the transform is applied to, as pd.date_range builds them:
\* steps of 15 minutes, an hour, a day, a day and 15 minutes, a week and two
\* weeks from three start dates at 00:00 or 22:15, and month ends or month
\* starts every 1, 2, 3 or 12 months from three first months
StepIndexes(periods) ==
    {[i \in 1..periods |->
         [day |-> start + ((minute + (i - 1) * step) \div 1440),
          minute |-> (minute + (i - 1) * step) % 1440]] :
     start \in {Ordinal(2019, 12, 31), Ordinal(2020, 1, 8), Ordinal(2020, 1, 13)},
     minute \in {0, 1335},
     step \in {15, 60, 1440, 1455, 10080, 20160}}

MonthIndexes(periods) ==
    {[i \in 1..periods |->
         LET mm == (first[2] - 1) + (i - 1) * step
             y == first[1] + (mm \div 12)
             m == (mm % 12) + 1
         IN  [day |-> Ordinal(y, m, IF at_end THEN DaysInMonth(y, m) ELSE 1),
              minute |-> 0]] :
     first \in {<<2019, 12>>, <<2020, 1>>, <<2020, 3>>},
     step \in {1, 2, 3, 12},
     at_end \in BOOLEAN}

Indexes(periods) == StepIndexes(periods) \cup MonthIndexes(periods)

\* ------------------------------------------- make_samples of the networks
\* (etna/models/nn/deepar_new/deepar.py, etna/models/nn/tft_native/tft.py)
\* A frame is the sequence of its row numbers 0..L-1: a slice of a column
\* is the sequence of the rows it reads.
Networks == {"deepar", "tft"}

Frame(L) == [r \in 1..L |-> r - 1]

\* x[a:] of Python for 0 <= a
PyFrom(seq, a) == PySlice(seq, a, Len(seq))

\* Faulty variant of too_short: ">=" for ">"
too_short_ge(df, start, encoder_length, decoder_length) ==
    encoder_length + decoder_length + start >= Len(df)

\* "if total_sample_length + start_idx > total_length: return None"
too_short(df, start, encoder_length, decoder_length) ==
    encoder_length + decoder_length + start > Len(df)

\* values_real of DeepARNetNew: row r holds its own features and
\* target_shifted, the target of row r - 1 (df["target"].shift(1)); the
\* shifted target of row 0 is missing, written as row -1
values_real(df) ==
    [r \in 1..Len(df) |-> [row |-> df[r], target_shifted |-> df[r] - 1]]

\* _make of DeepARNetNew: the rows of each part of the sample
deepar_make(df, start, encoder_length, decoder_length) ==
    LET total_sample_length == encoder_length + decoder_length
        target == PySlice(df, start, start + total_sample_length)
    IN  [start_idx |-> start,
         decoder_real |-> PySlice(values_real(df), start + encoder_length,
                                  start + total_sample_length),
         encoder_real |-> PyFrom(PySlice(values_real(df), start,
                                         start + encoder_length), 1),
         encoder_target |-> PySlice(target, 1, encoder_length),
         decoder_target |-> PyFrom(target, encoder_length)]

\* _make of TFTNativeNet: the rows of each part of the sample; the static
\* features read the first row of the frame
tft_make(df, start, encoder_length, decoder_length) ==
    LET total_sample_length == encoder_length + decoder_length
    IN  [start_idx |-> start,
         decoder_target |-> PySlice(df, start + encoder_length,
                                    start + total_sample_length),
         static |-> PySlice(df, 0, 1),
         encoder |-> PySlice(df, start, start + encoder_length),
         decoder |-> PySlice(df, start + encoder_length,
                             start + total_sample_length)]

make(net, df, start, encoder_length, decoder_length) ==
    IF net = "deepar"
    THEN deepar_make(df, start, encoder_length, decoder_length)
    ELSE tft_make(df, start, encoder_length, decoder_length)

\* ------------------------------------------------------------- state
VARIABLES
    args,              \* the arguments of the detector call
    pc,                \* "idle", "call", "loop", "done" or "raised"
    idx,               \* the next position of the loop
    closeness,         \* closeness of the position processed last
    num_close,         \* its prefix sums
    ests,              \* the estimates compared for it, in order
    outlier,           \* its verdict
    outliers_indices,  \* the list built so far
    ts,                \* the dataset, per segment its column and whether the
                       \* float mean of the column's values rounds; <<>> when
                       \* the columns are drawn as they are read
    call,              \* the arguments of get_anomalies_density but ts
    apc,               \* "idle", "loop", "read", "detect", "stored", "done"
                       \* or "raised"
    seg_i,             \* the number of iterations finished
    column,            \* ts[:, seg, in_column] of the iteration in progress
    mean_rounds,       \* whether the float mean of its values rounds
    outliers_idxs,     \* the detector's result of the iteration in progress
    outliers_per_segment,  \* the mapping built so far
    detector_ran,      \* history: the segments the detector was called for
    constant_segs,     \* history: the segments read with >= 1 value, all equal
    hol,               \* HolidayTransform: mode, iso_code, the index of df and
                       \* the number of segments
    hpc,               \* "idle", "start", "encode", "join", "done" or "raised"
    inferred_freq,     \* the frequency inferred from the index
    encoded_matrix,    \* the column of flags, names or shares built so far
    herr,              \* the exception raised
    hout,              \* the frame returned: its index and its new columns
    smp,               \* make_samples: the network, the number of rows of df,
                       \* encoder_length and decoder_length
    spc,               \* "idle", "start", "loop", "done" or "raised"
    sample_start_idx,  \* start_idx of the loop of make_samples
    samples            \* the samples yielded so far, in order

detvars == <<args, pc, idx, closeness, num_close, ests, outlier, outliers_indices>>

anovars == <<ts, call, apc, seg_i, column, mean_rounds, outliers_idxs,
             outliers_per_segment, detector_ran, constant_segs>>

holvars == <<hol, hpc, inferred_freq, encoded_matrix, herr, hout>>

smpvars == <<smp, spc, sample_start_idx, samples>>

vars == <<detvars, anovars, holvars, smpvars>>

\* No call of the detector in progress
DetectorIdle ==
    /\ args = Args(<<>>, 0, Thr(0), 0, "abs")
    /\ pc = "idle"
    /\ idx = 0
    /\ closeness = <<>>
    /\ num_close = <<>>
    /\ ests = <<>>
    /\ outlier = FALSE
    /\ outliers_indices = <<>>

\* No call of get_anomalies_density in progress
AnomaliesIdle ==
    /\ ts = <<>>
    /\ call = [window_size |-> 0, distance_coef |-> 0, n_neighbors |-> 0,
               distance_func |-> "abs"]
    /\ apc = "idle"
    /\ seg_i = 0
    /\ column = <<>>
    /\ mean_rounds = FALSE
    /\ outliers_idxs = <<>>
    /\ outliers_per_segment = <<>>
    /\ detector_ran = {}
    /\ constant_segs = {}

\* No call of HolidayTransform._transform in progress
HolidayIdle ==
    /\ hol = [mode |-> "binary", iso_code |-> "RUS", index |-> <<>>, n_segments |-> 0]
    /\ hpc = "idle"
    /\ inferred_freq = <<>>
    /\ encoded_matrix = <<>>
    /\ herr = NoError
    /\ hout = <<>>

\* No call of make_samples in progress
SamplesIdle ==
    /\ smp = [net |-> "deepar", rows |-> 0, encoder_length |-> 0, decoder_length |-> 0]
    /\ spc = "idle"
    /\ sample_start_idx = 0
    /\ samples = <<>>

Init ==
    /\ \E s \in Series, w \in 0..MaxWindow, t \in 0..MaxThr,
          k \in 1..MaxNeighbors, f \in DistanceFuncs :
          args = Args(s, w, Thr(t), k, f)
    /\ pc = "call"
    /\ idx = 0
    /\ closeness = <<>>
    /\ num_close = <<>>
    /\ ests = <<>>
    /\ outlier = FALSE
    /\ outliers_indices = <<>>
    /\ AnomaliesIdle
    /\ HolidayIdle
    /\ SamplesIdle

\* lines 63-69: the index arrays and the empty list
Call ==
    /\ pc = "call"
    /\ pc' = "loop"
    /\ idx' = 0
    /\ outliers_indices' = <<>>
    /\ UNCHANGED <<args, closeness, num_close, ests, outlier, anovars, holvars, smpvars>>

\* lines 70-86: one iteration of the loop over the positions
Iterate ==
    /\ pc = "loop"
    /\ idx < Len(args.series)
    /\ LET r == Placements(args, idx)
       IN  /\ ~r.raised
           /\ ests' = r.ests
           /\ outlier' = r.outlier
           /\ outliers_indices' = IF r.outlier
                                  THEN append(outliers_indices, idx)
                                  ELSE outliers_indices
    /\ closeness' = Closeness(args, idx)
    /\ num_close' = CumSum(Closeness(args, idx))
    /\ idx' = idx + 1
    /\ UNCHANGED <<args, pc, anovars, holvars, smpvars>>

\* line 77: an array read outside its array raises IndexError
RaiseIndexError ==
    /\ pc = "loop"
    /\ idx < Len(args.series)
    /\ args.distance_func # Malformed
    /\ LET r == Placements(args, idx)
       IN  /\ r.raised
           /\ ests' = r.ests
    /\ pc' = "raised"
    /\ closeness' = Closeness(args, idx)
    /\ num_close' = CumSum(Closeness(args, idx))
    /\ UNCHANGED <<args, idx, outlier, outliers_indices, anovars, holvars, smpvars>>

\* line 61: the comparison of a malformed distance with the threshold raises
RaiseDistanceError ==
    /\ pc = "loop"
    /\ idx < Len(args.series)
    /\ args.distance_func = Malformed
    /\ pc' = "raised"
    /\ UNCHANGED <<args, idx, closeness, num_close, ests, outlier, outliers_indices,
                   anovars, holvars, smpvars>>

\* line 88
Return ==
    /\ pc = "loop"
    /\ idx = Len(args.series)
    /\ pc' = "done"
    /\ UNCHANGED <<args, idx, closeness, num_close, ests, outlier, outliers_indices, anovars, holvars, smpvars>>

Next == Call \/ Iterate \/ RaiseIndexError \/ Return

Spec == Init /\ [][Next]_vars

\* A step of the running call, by what it does to the position in the code
\* and in the series: Call enters the loop, Iterate moves to the next
\* position, RaiseIndexError and Return leave the loop
Running ==
    /\ pc \in {"call", "loop"}
    /\ pc' \in {"loop", "done", "raised"}
    /\ idx' \in {idx, idx + 1}
    /\ <<pc', idx'>> # <<pc, idx>>

\* The call runs on while it has not ended: the function is synchronous,
\* its loops are plain for loops, and nothing suspends it
SpecFair == Init /\ [][Next]_vars /\ WF_<<pc, idx>>(Running)

\* ------------------------------------- get_anomalies_density, stepwise
\* The segment of the iteration in progress, or of the next one
seg == Segments[seg_i + 1]

InitAnomalies ==
    /\ DetectorIdle
    /\ HolidayIdle
    /\ SamplesIdle
    /\ \E w \in 0..(DsLen - 1), c \in 0..MaxCoef,
          k \in 1..MaxNeighbors, f \in DistanceFuncs :
          call = [window_size |-> w, distance_coef |-> c,
                  n_neighbors |-> k, distance_func |-> f]
    /\ ts = <<>>
    /\ apc = "loop"
    /\ seg_i = 0
    /\ column = <<>>
    /\ mean_rounds = FALSE
    /\ outliers_idxs = <<>>
    /\ outliers_per_segment = <<>>
    /\ detector_ran = {}
    /\ constant_segs = {}

\* lines 131-137: the segment's column is read from the dataset
ReadSegment ==
    /\ apc = "loop"
    /\ seg_i < Len(Segments)
    /\ \E col \in Columns, rounds \in BOOLEAN :
          /\ rounds => MayRound(dropna(col).values)
          /\ column' = col
          /\ mean_rounds' = rounds
          /\ constant_segs' =
                IF Len(dropna(col).values) >= 1 /\ AllEqual(dropna(col).values)
                THEN constant_segs \cup {seg}
                ELSE constant_segs
    /\ apc' = "read"
    /\ UNCHANGED <<ts, call, seg_i, outliers_idxs, outliers_per_segment,
                   detector_ran, detvars, holvars, smpvars>>

\* line 138, series_std is 0.0: nothing is done for the segment
SkipSegment ==
    /\ apc = "read"
    /\ Numeric(dropna(column).values)
    /\ ~std_truthy(dropna(column).values, mean_rounds)
    /\ apc' = "stored"
    /\ UNCHANGED <<ts, call, seg_i, column, mean_rounds, outliers_idxs,
                   outliers_per_segment, detector_ran, constant_segs, detvars, holvars, smpvars>>

\* lines 138-148: the detector is called and its result stored
DetectSegment ==
    /\ apc = "read"
    /\ std_truthy(dropna(column).values, mean_rounds)
    /\ LET r == get_segment_density_outliers_indices(
                    detector_args(call, column, mean_rounds))
       IN  /\ ~r.raised
           /\ outliers_idxs' = r.indices
           /\ outliers_per_segment' =
                 store(outliers_per_segment, seg, r.indices, timestamps_of(column))
    /\ detector_ran' = detector_ran \cup {seg}
    /\ apc' = "stored"
    /\ UNCHANGED <<ts, call, seg_i, column, mean_rounds, constant_segs, detvars, holvars, smpvars>>

\* lines 139-145: the detector raises, and so does get_anomalies_density
DetectorRaises ==
    /\ apc = "read"
    /\ std_truthy(dropna(column).values, mean_rounds)
    /\ get_segment_density_outliers_indices(
                    detector_args(call, column, mean_rounds)).raised
    /\ detector_ran' = detector_ran \cup {seg}
    /\ apc' = on_exception
    /\ UNCHANGED <<ts, call, seg_i, column, mean_rounds, outliers_idxs,
                   outliers_per_segment, constant_segs, detvars, holvars, smpvars>>

\* line 131: the loop moves on. segment_df, series, timestamps and
\* outliers_idxs of the finished iteration are read by no later statement:
\* the model forgets them
NextSegment ==
    /\ apc = "stored"
    /\ apc' = "loop"
    /\ seg_i' = seg_i + 1
    /\ column' = <<>>
    /\ mean_rounds' = FALSE
    /\ outliers_idxs' = <<>>
    /\ UNCHANGED <<ts, call, outliers_per_segment, detector_ran, constant_segs,
                   detvars, holvars, smpvars>>

\* line 150
ReturnMapping ==
    /\ apc = "loop"
    /\ seg_i = Len(Segments)
    /\ apc' = "done"
    /\ UNCHANGED <<ts, call, seg_i, column, mean_rounds, outliers_idxs,
                   outliers_per_segment, detector_ran, constant_segs, detvars, holvars, smpvars>>

NextAnomalies ==
    \/ ReadSegment \/ SkipSegment \/ DetectSegment \/ DetectorRaises
    \/ NextSegment \/ ReturnMapping

SpecAnomalies == InitAnomalies /\ [][NextAnomalies]_vars

\* ------------------------- get_anomalies_density on a dataset in state
\* The datasets: two segments over the timestamps 1..len, one of them a
\* constant column, the other a constant column, a column of equal values
\* but one (a spike of size 1 or 2, up or down), a constant column whose
\* first value is missing, or a column of strings
ConstantData(len) ==
    {d \in [values : {[t \in 1..len |-> v] : v \in Levels}, mean_rounds : BOOLEAN] :
        d.mean_rounds => MayRound(d.values)}

SpikeData(len) ==
    UNION {{[values |-> [t \in 1..len |-> IF t = p THEN x ELSE v],
             mean_rounds |-> FALSE] : p \in 1..len, x \in (Levels \cup {2}) \ {v}} :
           v \in Levels}

GapData(len) ==
    {d \in [values : {[t \in 1..len |-> IF t = 1 THEN NaN ELSE v] : v \in Levels},
            mean_rounds : BOOLEAN] :
        d.mean_rounds => MayRound(dropna(d.values).values)}

TextData(len) == {[values |-> [t \in 1..len |-> Text], mean_rounds |-> FALSE]}

SegmentData(len) ==
    ConstantData(len) \cup SpikeData(len) \cup GapData(len) \cup TextData(len)

\* The calls: the default window_size, or 0; the default distance_coef; the
\* default distance_func, or a malformed one
InitDataset ==
    /\ DetectorIdle
    /\ HolidayIdle
    /\ SamplesIdle
    /\ \E len \in 2..MaxTsLen :
          \E a \in ConstantData(len), b \in SegmentData(len) :
              ts \in {<<a, b>>, <<b, a>>}
    /\ \E w \in {0, DefaultWindowSize}, k \in 1..MaxNeighbors,
          f \in {"abs", Malformed} :
          call = [window_size |-> w, distance_coef |-> DefaultDistanceCoef,
                  n_neighbors |-> k, distance_func |-> f]
    /\ apc = "loop"
    /\ seg_i = 0
    /\ column = <<>>
    /\ mean_rounds = FALSE
    /\ outliers_idxs = <<>>
    /\ outliers_per_segment = <<>>
    /\ detector_ran = {}
    /\ constant_segs = {}

\* lines 131-136: the segment's column is read from ts
ReadDataset ==
    /\ apc = "loop"
    /\ seg_i < Len(ts)
    /\ column' = ts[seg_i + 1].values
    /\ mean_rounds' = ts[seg_i + 1].mean_rounds
    /\ ts' = dataset_after_read(ts, seg_i + 1)
    /\ constant_segs' =
          LET series == dropna(ts[seg_i + 1].values).values
          IN  IF Len(series) >= 1 /\ AllEqual(series) /\ Numeric(series)
              THEN constant_segs \cup {seg}
              ELSE constant_segs
    /\ apc' = "read"
    /\ UNCHANGED <<call, seg_i, outliers_idxs, outliers_per_segment,
                   detector_ran, detvars, holvars, smpvars>>

\* line 137: np.std raises for values that are no numbers
StdRaises ==
    /\ apc = "read"
    /\ ~Numeric(dropna(column).values)
    /\ apc' = on_exception
    /\ UNCHANGED <<ts, call, seg_i, column, mean_rounds, outliers_idxs,
                   outliers_per_segment, detector_ran, constant_segs, detvars, holvars, smpvars>>

\* lines 138-145: the detector is called
CallDetector ==
    /\ apc = "read"
    /\ Numeric(dropna(column).values)
    /\ std_truthy(dropna(column).values, mean_rounds)
    /\ args' = detector_args(call, column, mean_rounds)
    /\ pc' = "call"
    /\ detector_ran' = detector_ran \cup {seg}
    /\ apc' = "detect"
    /\ UNCHANGED <<idx, closeness, num_close, ests, outlier, outliers_indices,
                   ts, call, seg_i, column, mean_rounds, outliers_idxs,
                   outliers_per_segment, constant_segs, holvars, smpvars>>

\* lines 139-148: the detector returns, its locals are gone, and its result
\* is stored
StoreResult ==
    /\ apc = "detect"
    /\ pc = "done"
    /\ outliers_idxs' = outliers_indices
    /\ outliers_per_segment' =
          store(outliers_per_segment, seg, outliers_indices, timestamps_of(column))
    /\ apc' = "stored"
    /\ args' = Args(<<>>, 0, Thr(0), 0, "abs")
    /\ pc' = "idle"
    /\ idx' = 0
    /\ closeness' = <<>>
    /\ num_close' = <<>>
    /\ ests' = <<>>
    /\ outlier' = FALSE
    /\ outliers_indices' = <<>>
    /\ UNCHANGED <<ts, call, seg_i, column, mean_rounds, detector_ran, constant_segs,
                   holvars, smpvars>>

\* lines 139-145: the detector raised, and so does get_anomalies_density
PropagateError ==
    /\ apc = "detect"
    /\ pc = "raised"
    /\ apc' = on_exception
    /\ UNCHANGED <<ts, call, seg_i, column, mean_rounds, outliers_idxs,
                   outliers_per_segment, detector_ran, constant_segs, detvars, holvars, smpvars>>

NextDataset ==
    \/ ReadDataset \/ StdRaises \/ SkipSegment \/ CallDetector
    \/ Call \/ Iterate \/ RaiseIndexError \/ RaiseDistanceError \/ Return
    \/ StoreResult \/ PropagateError
    \/ NextSegment \/ ReturnMapping

SpecDataset == InitDataset /\ [][NextDataset]_vars

\* ------------------------------------- HolidayTransform._transform, stepwise
InitHoliday ==
    /\ DetectorIdle
    /\ AnomaliesIdle
    /\ SamplesIdle
    /\ \E mode \in Modes, iso_code \in DOMAIN Calendars, k \in 1..2,
          periods \in 3..MaxPeriods :
          \E index \in Indexes(periods) :
              hol = [mode |-> mode, iso_code |-> iso_code, index |-> index,
                     n_segments |-> k]
    /\ hpc = "start"
    /\ inferred_freq = <<>>
    /\ encoded_matrix = <<>>
    /\ herr = NoError
    /\ hout = <<>>

\* lines 91-96: the frequency is inferred and accepted
InferFrequency ==
    /\ hpc = "start"
    /\ ~(infer_freq(hol.index) # <<"D">> /\ hol.mode # "days_count")
    /\ inferred_freq' = infer_freq(hol.index)
    /\ hpc' = "encode"
    /\ UNCHANGED <<hol, encoded_matrix, herr, hout, detvars, anovars, smpvars>>

\* lines 91-93: the frequency is inferred and refused
RaiseFrequency ==
    /\ hpc = "start"
    /\ infer_freq(hol.index) # <<"D">> /\ hol.mode # "days_count"
    /\ inferred_freq' = infer_freq(hol.index)
    /\ herr' = FrequencyError
    /\ hpc' = "raised"
    /\ UNCHANGED <<hol, encoded_matrix, hout, detvars, anovars, smpvars>>

\* lines 100-123: one iteration of the loop over the dates, days_count mode
CountHolidays ==
    /\ hpc = "encode"
    /\ hol.mode = "days_count"
    /\ Len(encoded_matrix) < Len(hol.index)
    /\ LET p == period(inferred_freq, hol.index[Len(encoded_matrix) + 1])
       IN  /\ p.ok
           /\ encoded_matrix' = Append(encoded_matrix, holidays_freq(hol.iso_code, p))
    /\ hpc' = IF Len(encoded_matrix) + 1 = Len(hol.index) THEN "join" ELSE "encode"
    /\ UNCHANGED <<hol, inferred_freq, herr, hout, detvars, anovars, smpvars>>

\* line 119: the frequency is none of those listed
RaiseUnsupported ==
    /\ hpc = "encode"
    /\ hol.mode = "days_count"
    /\ Len(encoded_matrix) < Len(hol.index)
    /\ ~period(inferred_freq, hol.index[Len(encoded_matrix) + 1]).ok
    /\ herr' = UnsupportedError
    /\ hpc' = "raised"
    /\ UNCHANGED <<hol, inferred_freq, encoded_matrix, hout, detvars, anovars, smpvars>>

\* lines 124-127
EncodeCategory ==
    /\ hpc = "encode"
    /\ hol.mode = "category"
    /\ encoded_matrix' =
          [i \in 1..Len(hol.index) |->
              IF IsHoliday(hol.iso_code, hol.index[i].day)
              THEN HolidayName(hol.iso_code, hol.index[i].day)
              ELSE "NO_HOLIDAY"]
    /\ hpc' = "join"
    /\ UNCHANGED <<hol, inferred_freq, herr, hout, detvars, anovars, smpvars>>

\* lines 128-129
EncodeBinary ==
    /\ hpc = "encode"
    /\ hol.mode = "binary"
    /\ encoded_matrix' =
          [i \in 1..Len(hol.index) |->
              BoolToInt(IsHoliday(hol.iso_code, hol.index[i].day))]
    /\ hpc' = "join"
    /\ UNCHANGED <<hol, inferred_freq, herr, hout, detvars, anovars, smpvars>>

\* lines 130-140: the column is repeated for every segment and joined to df,
\* whose index is kept
JoinColumns ==
    /\ hpc = "join"
    /\ hout' = [index |-> hol.index,
                columns |-> [sg \in 1..hol.n_segments |-> encoded_matrix]]
    /\ hpc' = "done"
    /\ UNCHANGED <<hol, inferred_freq, encoded_matrix, herr, detvars, anovars, smpvars>>

NextHoliday ==
    \/ InferFrequency \/ RaiseFrequency \/ CountHolidays \/ RaiseUnsupported
    \/ EncodeCategory \/ EncodeBinary \/ JoinColumns

SpecHoliday == InitHoliday /\ [][NextHoliday]_vars

\* --------------------------------------------------- make_samples, stepwise
InitSamples ==
    /\ DetectorIdle
    /\ AnomaliesIdle
    /\ HolidayIdle
    /\ \E net \in Networks, L \in 0..MaxRows, e \in 1..MaxEncoder,
          d \in 1..MaxDecoder :
          smp = [net |-> net, rows |-> L, encoder_length |-> e,
                 decoder_length |-> d]
    /\ spc = "start"
    /\ sample_start_idx = 0
    /\ samples = <<>>

\* segment = df["segment"].values[0], and start_idx = 0
ReadSegmentName ==
    /\ spc = "start"
    /\ smp.rows >= 1
    /\ spc' = "loop"
    /\ sample_start_idx' = 0
    /\ UNCHANGED <<smp, samples, detvars, anovars, holvars>>

\* df["segment"].values[0] of a frame without rows raises IndexError
RaiseEmptyFrame ==
    /\ spc = "start"
    /\ smp.rows = 0
    /\ spc' = "raised"
    /\ UNCHANGED <<smp, sample_start_idx, samples, detvars, anovars, holvars>>

\* One iteration of "while True": _make returns a sample, which is yielded
YieldSample ==
    /\ spc = "loop"
    /\ ~too_short(Frame(smp.rows), sample_start_idx, smp.encoder_length,
                  smp.decoder_length)
    /\ samples' = Append(samples,
                         make(smp.net, Frame(smp.rows), sample_start_idx,
                              smp.encoder_length, smp.decoder_length))
    /\ sample_start_idx' = sample_start_idx + 1
    /\ UNCHANGED <<smp, spc, detvars, anovars, holvars>>

\* _make returns None and the loop is left
StopSamples ==
    /\ spc = "loop"
    /\ too_short(Frame(smp.rows), sample_start_idx, smp.encoder_length,
                 smp.decoder_length)
    /\ spc' = "done"
    /\ UNCHANGED <<smp, sample_start_idx, samples, detvars, anovars, holvars>>

NextSamples == ReadSegmentName \/ RaiseEmptyFrame \/ YieldSample \/ StopSamples

\* The consumer of the generator iterates it to its end
SpecSamples == InitSamples /\ [][NextSamples]_vars /\ WF_vars(NextSamples)

\* ------------------------------------------------- claims, detector
Range(seq) == {seq[j] : j \in 1..Len(seq)}

n == Len(args.series)

\* The position whose closeness, num_close, ests and outlier the state holds
cur == idx - 1

Processed == pc \in {"loop", "done"} /\ idx >= 1

DefaultDistance == args.distance_func = "abs"

\* The reference definition, written without the detector's operators: the
\* in-bounds windows of min(w, n) consecutive positions that contain i, by
\* their first position
RefSpan(a) == Min(a.window_size, Len(a.series))

RefWindows(a, i) ==
    {s \in 0..(Len(a.series) - RefSpan(a)) : s <= i /\ i < s + RefSpan(a)}

RefAbs(x, y) == IF x >= y THEN x - y ELSE y - x

RefCloseOthers(a, i, s) ==
    Cardinality({k \in s..(s + RefSpan(a) - 1) :
        /\ k # i
        /\ RefAbs(a.series[k + 1], a.series[i + 1])
             * RefAbs(a.series[k + 1], a.series[i + 1])
             * a.distance_threshold.den < a.distance_threshold.num})

RefOutlier(a, i) ==
    \A s \in RefWindows(a, i) : RefCloseOthers(a, i, s) < a.n_neighbors

\* C1: with the default distance and window_size >= 1, the list returned
\* holds position i iff every in-bounds window of min(w, n) positions
\* containing i has fewer than n_neighbors other positions strictly closer
\* than distance_threshold to series[i]
C1_AgreesWithReference ==
    (pc = "done" /\ DefaultDistance /\ args.window_size >= 1) =>
        \A i \in 0..(n - 1) :
            (i \in Range(outliers_indices)) <=> RefOutlier(args, i)

\* C1 witness: a returned list with both verdicts, for a window shorter than
\* the series and a position with window_size + 1 placements
C1_Witness ==
    /\ pc = "done" /\ DefaultDistance
    /\ args.window_size >= 2 /\ n >= 2 * args.window_size
    /\ outliers_indices # <<>>
    /\ Len(outliers_indices) < n
    /\ args.distance_threshold.num > 0

\* C2: the list returned is strictly ascending (hence without duplicates)
\* and each element is a position 0..n-1 of the series
C2_AscendingPositions ==
    pc = "done" =>
        \A j \in 1..Len(outliers_indices) :
            /\ outliers_indices[j] \in 0..(n - 1)
            /\ j > 1 => outliers_indices[j - 1] < outliers_indices[j]

\* C2 witness: a returned list of at least two positions
C2_Witness == pc = "done" /\ Len(outliers_indices) >= 2

\* The set of positions returned with n_neighbors replaced by b
OutliersWithNeighbors(b) ==
    Range(get_segment_density_outliers_indices(
              [args EXCEPT !.n_neighbors = b]).indices)

\* C6: for every distance function, the outliers returned for n_neighbors
\* are among those returned for any larger n_neighbors
C6_NeighborMonotone ==
    pc = "done" =>
        \A b \in (args.n_neighbors + 1)..(MaxNeighbors + 1) :
            Range(outliers_indices) \subseteq OutliersWithNeighbors(b)

\* C6 witness: a larger n_neighbors strictly grows a non-empty outlier set
C6_Witness ==
    /\ pc = "done"
    /\ outliers_indices # <<>>
    /\ \E b \in (args.n_neighbors + 1)..(MaxNeighbors + 1) :
          Range(outliers_indices) # OutliersWithNeighbors(b)

\* The set of positions returned with distance_threshold replaced by t
OutliersWithThreshold(t) ==
    Range(get_segment_density_outliers_indices(
              [args EXCEPT !.distance_threshold = Thr(t)]).indices)

\* C7: with the default distance, the outliers returned for any larger
\* distance_threshold are among those returned for distance_threshold
C7_ThresholdMonotone ==
    (pc = "done" /\ DefaultDistance) =>
        \A t \in 0..(MaxThr + 1) :
            ThrLess(args.distance_threshold, Thr(t)) =>
                OutliersWithThreshold(t) \subseteq Range(outliers_indices)

\* C7 witness: raising the threshold from 0 strictly shrinks the outlier
\* set without emptying it
C7_Witness ==
    /\ pc = "done" /\ DefaultDistance
    /\ args.distance_threshold = Thr(0)
    /\ \E t \in 1..(MaxThr + 1) :
          /\ OutliersWithThreshold(t) # Range(outliers_indices)
          /\ OutliersWithThreshold(t) # {}

\* The positions of placement d of position i: window_size consecutive
\* positions from start + d, within the series
PlacementPositions(a, i, d) ==
    (start_idxs(a, i) + d)..
        Min(start_idxs(a, i) + d + a.window_size - 1, Len(a.series) - 1)

\* The positions other than i in placement d that are close to series[i]
CloseOthers(a, i, d) ==
    Cardinality({k \in PlacementPositions(a, i, d) :
        k # i /\ is_close(a, a.series[k + 1], a.series[i + 1])})

\* C8: for every distance function, every estimate compared against
\* n_neighbors is at most the number of positions other than the position
\* itself, inside that placement, that are close to it
C8_SelfExclusion ==
    Processed =>
        \A d \in 0..(Len(ests) - 1) :
            ests[d + 1] <= CloseOthers(args, cur, d)

\* C8 witness: a distance under which the position is not close to itself,
\* and a placement holding the position and a close other position
C8_Witness ==
    /\ Processed
    /\ ~is_close(args, args.series[cur + 1], args.series[cur + 1])
    /\ \E d \in 0..(Len(ests) - 1) :
          /\ cur \in PlacementPositions(args, cur, d)
          /\ CloseOthers(args, cur, d) >= 1

\* The positions other than i of the whole series that are close to
\* series[i], by the default distance
RefCloseInSeries(a, i) ==
    Cardinality({k \in 0..(Len(a.series) - 1) :
        /\ k # i
        /\ RefAbs(a.series[k + 1], a.series[i + 1])
             * RefAbs(a.series[k + 1], a.series[i + 1])
             * a.distance_threshold.den < a.distance_threshold.num})

\* C9: when window_size >= n (default distance), no array read raises,
\* exactly one placement is evaluated for each position, and the position
\* is an outlier iff fewer than n_neighbors of the other n - 1 positions of
\* the series are close to it
C9_WholeSeriesWindow ==
    (DefaultDistance /\ args.window_size >= n) =>
        /\ pc # "raised"
        /\ Processed =>
              /\ Len(ests) = 1
              /\ deltas(args, cur) = 1
              /\ outlier <=> (RefCloseInSeries(args, cur) < args.n_neighbors)
              /\ outlier <=> (cur \in Range(outliers_indices))

\* C9 witness: a window longer than the series, a position that is kept
\* after one that is flagged
C9_Witness ==
    /\ Processed /\ DefaultDistance
    /\ args.window_size > n
    /\ ~outlier
    /\ outliers_indices # <<>>

\* m copies of one value followed by one value not close to it, with
\* m >= window_size, distance_threshold > 0, 1 <= n_neighbors <= window_size - 1
C10_Case ==
    /\ DefaultDistance
    /\ n >= 2
    /\ n - 1 >= args.window_size
    /\ \A k \in 1..(n - 1) : args.series[k] = args.series[1]
    /\ RefAbs(args.series[n], args.series[1]) * RefAbs(args.series[n], args.series[1])
          * args.distance_threshold.den >= args.distance_threshold.num
    /\ args.distance_threshold.num > 0
    /\ 1 <= args.n_neighbors /\ args.n_neighbors <= args.window_size - 1

\* C10: for m >= window_size copies of one value followed by a single value
\* at distance at least distance_threshold > 0, and
\* 1 <= n_neighbors <= window_size - 1, the list returned is [m]
C10_SpikeAtEnd ==
    (pc = "done" /\ C10_Case) => outliers_indices = <<n - 1>>

\* C10 witness: such a series whose last value is at distance exactly
\* distance_threshold
C10_Witness ==
    /\ pc = "done" /\ C10_Case
    /\ RefAbs(args.series[n], args.series[1]) * RefAbs(args.series[n], args.series[1])
          * args.distance_threshold.den = args.distance_threshold.num
    /\ outliers_indices = <<n - 1>>

\* A series of equal values, a positive threshold, a window of at least 1
C11_Case ==
    /\ pc = "done"
    /\ DefaultDistance
    /\ AllEqual(args.series)
    /\ args.distance_threshold.num > 0
    /\ args.window_size >= 1

\* C11 as claimed: for a constant series of any length n >= 1, any
\* distance_threshold > 0, every window_size >= 1 and every n_neighbors >= 1,
\* the list returned is empty.
\* Violated: a window of min(window_size, n) positions holds only
\* min(window_size, n) - 1 positions other than the position itself
C11_ConstantNoOutliers ==
    C11_Case => outliers_indices = <<>>

\* C11 amended: for a constant series, distance_threshold > 0 and
\* window_size >= 1, the list returned is empty when
\* n_neighbors <= min(window_size, n) - 1
C11_ConstantEnoughNeighbors ==
    (C11_Case /\ args.n_neighbors <= Min(args.window_size, n) - 1) =>
        outliers_indices = <<>>

\* C11 witness: a constant series longer than its window, with n_neighbors
\* exactly window_size - 1, for which nothing is returned
C11_Witness ==
    /\ C11_Case
    /\ args.window_size < n
    /\ args.n_neighbors = args.window_size - 1
    /\ args.n_neighbors >= 2
    /\ outliers_indices = <<>>

\* The in-bounds windows of exactly window_size positions that contain i, by
\* their first position
PlacementsContaining(a, i) ==
    {s \in 0..(Len(a.series) - a.window_size) : s <= i /\ i < s + a.window_size}

\* C20: for window_size >= 1, each position has 1 <= delta <= window_size,
\* and delta is the number of in-bounds placements of width window_size that
\* contain the position.
\* Violated: start = max(0, idx - window_size) makes the first placement
\* evaluated the one that ends just before idx, so delta is window_size + 1
\* for window_size <= idx <= n - window_size; and for window_size > n no
\* placement of width window_size is in bounds, while delta is 1
C20_DeltaCountsPlacements ==
    (Processed /\ args.window_size >= 1) =>
        /\ 1 <= deltas(args, cur)
        /\ deltas(args, cur) <= args.window_size
        /\ deltas(args, cur) = Cardinality(PlacementsContaining(args, cur))

\* C20 amended: for window_size >= 1, each position has
\* 1 <= delta <= window_size + 1, and delta is the number of in-bounds
\* placements of width min(window_size, n) that contain the position, plus
\* one when idx >= window_size
C20_DeltaBounds ==
    (Processed /\ args.window_size >= 1) =>
        /\ 1 <= deltas(args, cur)
        /\ deltas(args, cur) <= args.window_size + 1
        /\ deltas(args, cur) =
              Cardinality(RefWindows(args, cur))
                + (IF cur >= args.window_size THEN 1 ELSE 0)

\* C20 witness: a position with window_size + 1 placements, window_size >= 2
C20_Witness ==
    /\ Processed
    /\ args.window_size >= 2
    /\ deltas(args, cur) = args.window_size + 1
    /\ Len(ests) = args.window_size + 1

\* ---------------------------------------------- claims, get_anomalies_density
Stored == apc = "stored"

\* The entry of the segment in progress; the empty list when it has none
Entry == IF seg \in DOMAIN outliers_per_segment
         THEN outliers_per_segment[seg] ELSE <<>>

\* C3: every key of the mapping returned is a segment of the dataset and
\* every value is a non-empty list; a segment for which the detector
\* returned no position has no entry
C3_NoEmptyEntries ==
    /\ apc = "done" =>
          \A s \in DOMAIN outliers_per_segment :
              /\ s \in Range(Segments)
              /\ outliers_per_segment[s] # <<>>
    /\ (Stored /\ seg \in detector_ran /\ outliers_idxs = <<>>) =>
          seg \notin DOMAIN outliers_per_segment

\* C3 witness: the detector ran for both segments, and the mapping returned
\* holds exactly one of them
C3_Witness ==
    /\ apc = "done"
    /\ detector_ran = Range(Segments)
    /\ Cardinality(DOMAIN outliers_per_segment) = 1

\* C4: a segment with at least one non-missing value, all of them equal,
\* has no entry in the mapping, and the detector is not called for it,
\* whatever window_size >= 1, distance_coef >= 1, n_neighbors and distance_func.
\* Violated: np.std of equal values whose float mean rounds is not 0.0
C4_ConstantSkipped ==
    (call.window_size >= 1 /\ call.distance_coef >= 1) =>
        \A s \in constant_segs :
            /\ s \notin DOMAIN outliers_per_segment
            /\ s \notin detector_ran

\* The reference reading of a column, written without dropna: its values
\* in order with the missing ones left out
RECURSIVE RefCompactFrom(_, _)
RefCompactFrom(col, t) ==
    IF t > Len(col) THEN <<>>
    ELSE (IF col[t] = NaN THEN <<>> ELSE <<col[t]>>) \o RefCompactFrom(col, t + 1)

RefCompact(col) == RefCompactFrom(col, 1)

\* The timestamp of the non-missing value number pos (from 0) of a column
RefTimestampAt(col, pos) ==
    CHOOSE t \in 1..Len(col) :
        /\ col[t] # NaN
        /\ Cardinality({u \in 1..(t - 1) : col[u] # NaN}) = pos

\* (distance_coef * std) ** 2 of the population standard deviation, by
\* var = (n * sum(x^2) - sum(x)^2) / n^2
RefThreshold(coef, series) ==
    LET len == Len(series)
        sq == [k \in 1..len |-> series[k] * series[k]]
    IN  [num |-> coef * coef * (len * SumSeq(sq) - SumSeq(series) * SumSeq(series)),
         den |-> len * len]

RefDetectorArgs ==
    Args(RefCompact(column), call.window_size,
         RefThreshold(call.distance_coef, RefCompact(column)),
         call.n_neighbors, call.distance_func)

NonZeroStd(series) == ~(Len(series) >= 1 /\ AllEqual(series))

\* C5: for a segment whose standard deviation is not zero, the detector is
\* run on the values left after the missing ones are removed, with
\* distance_threshold = distance_coef * std of those values; whenever the
\* detector is run, the timestamps stored are those of the positions it
\* returns, counted in the post-removal sequence: none is the timestamp of
\* a missing value, and they ascend
C5_TimestampsOfPositions ==
    /\ (Stored /\ NonZeroStd(RefCompact(column))) =>
          /\ seg \in detector_ran
          /\ outliers_idxs =
                get_segment_density_outliers_indices(RefDetectorArgs).indices
    /\ (Stored /\ seg \in detector_ran) =>
          /\ Len(Entry) = Len(outliers_idxs)
          /\ \A j \in 1..Len(Entry) :
                /\ Entry[j] = RefTimestampAt(column, outliers_idxs[j])
                /\ column[Entry[j]] # NaN
                /\ j > 1 => Entry[j - 1] < Entry[j]

\* C5 witness: a missing value between two values, and a stored timestamp
\* that differs from the raw row number of its position
C5_Witness ==
    /\ Stored
    /\ column[1] # NaN /\ column[2] = NaN /\ column[3] # NaN
    /\ \E j \in 1..Len(Entry) : Entry[j] # outliers_idxs[j] + 1

\* --------------------------------------- claims, dataset in the state
\* The segments, by number, whose iteration is over
Finished ==
    {i \in 1..Len(ts) : i <= seg_i \/ (i = seg_i + 1 /\ apc = "stored")}

\* A column of numbers, none missing
Plain(values) == \A t \in 1..Len(values) : values[t] \notin {NaN, Text}

\* The positions whose value differs from all others, these being equal
SpikePositions(values) ==
    {p \in 1..Len(values) :
        /\ \A j, k \in 1..Len(values) : (j # p /\ k # p) => values[j] = values[k]
        /\ \A j \in 1..Len(values) : j # p => values[j] # values[p]}

IsSpike(d) == Plain(d.values) /\ SpikePositions(d.values) # {}

IsConstant(d) == Plain(d.values) /\ AllEqual(d.values)

TsLen == Len(ts[1].values)

\* The spiking segment, by number
SpikeSeg == CHOOSE j \in 1..Len(ts) : IsSpike(ts[j])

\* A returned mapping for a dataset of one constant and one spiking segment,
\* with distance_coef = 3, n_neighbors = 1 and the defaults for the rest
C12_Case ==
    /\ apc = "done"
    /\ call.window_size = DefaultWindowSize
    /\ call.distance_coef = 3
    /\ call.n_neighbors = 1
    /\ call.distance_func = "abs"
    /\ \E i, j \in 1..Len(ts) : i # j /\ IsConstant(ts[i]) /\ IsSpike(ts[j])

\* The mapping holds the spiking segment alone, with the spike's timestamp alone
OnlyTheSpike ==
    /\ DOMAIN outliers_per_segment = {Segments[SpikeSeg]}
    /\ \E p \in SpikePositions(ts[SpikeSeg].values) :
          outliers_per_segment[Segments[SpikeSeg]] = <<p>>

\* C12 as claimed: for every segment length n >= 2, every spike position
\* and every non-zero spike size, the mapping returned holds the spiking
\* segment alone, with the spike's timestamp alone.
\* Violated: the spike is at distance m from the other values and
\* 3 * std = 3 * m * sqrt(n - 1) / n exceeds m for 2 <= n <= 7
C12_SpikeAlone ==
    C12_Case => OnlyTheSpike

\* C12 amended: the same for every segment length n >= 8
C12_SpikeAloneFromEight ==
    (C12_Case /\ TsLen >= 8) => OnlyTheSpike

\* C12 witness: segments of length 8, the spike in the first segment at the
\* last timestamp, the detector called for the constant segment as well
C12_Witness ==
    /\ C12_Case
    /\ TsLen = 8
    /\ IsSpike(ts[1])
    /\ outliers_per_segment = [s \in {Segments[1]} |-> <<8>>]
    /\ detector_ran = Range(Segments)

\* C13: no step of get_anomalies_density changes the dataset (values,
\* timestamps, segments) or its parameters; while the detector runs, its
\* series is the column's non-missing values and no step of it changes the
\* series or the other arguments
C13_InputsUnchanged ==
    [][/\ ts' = ts
       /\ call' = call
       /\ pc \in {"call", "loop"} =>
             /\ args' = args
             /\ args.series = dropna(ts[seg_i + 1].values).values]_vars

\* C13 witness: a mapping returned for a dataset with a missing value, the
\* detector having run on that segment
C13_Witness ==
    /\ apc = "done"
    /\ \E i \in 1..Len(ts) :
          /\ ts[i].values[1] = NaN
          /\ Segments[i] \in detector_ran

\* np.std, the distance function or the detector raises for the segment
MustRaise(d) ==
    LET series == dropna(d.values).values
    IN  \/ ~Numeric(series)
        \/ /\ ~(AllEqual(series) /\ ~d.mean_rounds)
           /\ Len(series) >= 1
           /\ (call.distance_func = Malformed \/ call.window_size = 0)

\* The standard deviation of the segment's values is exactly 0.0
ZeroStd(d) ==
    LET series == dropna(d.values).values
    IN  Numeric(series) /\ Len(series) >= 1 /\ AllEqual(series) /\ ~d.mean_rounds

\* C14: a mapping is returned only if nothing raises for any segment; the
\* call ends with the error of the first segment for which np.std, the
\* distance function or the detector raises; and a segment is passed over
\* without the detector being called only if its standard deviation is
\* exactly zero
C14_FailFast ==
    /\ apc = "done" => \A i \in 1..Len(ts) : ~MustRaise(ts[i])
    /\ apc = "raised" =>
          /\ MustRaise(ts[seg_i + 1])
          /\ \A i \in 1..seg_i : ~MustRaise(ts[i])
    /\ \A i \in Finished : Segments[i] \notin detector_ran => ZeroStd(ts[i])

\* C14 witness: the second segment raises after the detector ran on the first
C14_Witness ==
    /\ apc = "raised"
    /\ seg_i = 1
    /\ Segments[1] \in detector_ran

\* The entry of a segment as a function of its own column and the parameters
EntryOf(d, c) ==
    LET series == dropna(d.values).values
    IN  IF ~Numeric(series) \/ ~std_truthy(series, d.mean_rounds)
        THEN <<>>
        ELSE LET r == get_segment_density_outliers_indices(
                          detector_args(c, d.values, d.mean_rounds))
             IN  IF r.raised THEN <<>>
                 ELSE take(timestamps_of(d.values), r.indices)

\* C15: at every point of the call, the mapping holds for each segment
\* whose iteration is over exactly the entry determined by that segment's
\* own column and the parameters, whatever the other segment holds and
\* whichever comes first, and holds nothing else
C15_PerSegmentFunction ==
    apc \in {"loop", "read", "detect", "stored", "done"} =>
        /\ DOMAIN outliers_per_segment \subseteq {Segments[i] : i \in Finished}
        /\ \A i \in Finished :
              /\ Segments[i] \in DOMAIN outliers_per_segment
                    <=> EntryOf(ts[i], call) # <<>>
              /\ Segments[i] \in DOMAIN outliers_per_segment
                    => outliers_per_segment[Segments[i]] = EntryOf(ts[i], call)

\* C15 witness: a mapping returned with an entry for the second segment and
\* none for the first, the detector having run on both
C15_Witness ==
    /\ apc = "done"
    /\ DOMAIN outliers_per_segment = {Segments[2]}
    /\ detector_ran = Range(Segments)

\* ------------------------------------------------- claims, HolidayTransform
\* The steps of an index, in minutes
Steps(index) ==
    {(index[i + 1].day * 1440 + index[i + 1].minute)
        - (index[i].day * 1440 + index[i].minute) : i \in 1..(Len(index) - 1)}

\* Data of one regular frequency finer than daily
SubDaily(index) ==
    Cardinality(Steps(index)) = 1 /\ \A step \in Steps(index) : step < 1440

\* Data of daily frequency
Daily(index) == Steps(index) = {1440}

\* Data whose frequency is coarser than one day
CoarserThanDaily(index) ==
    Steps(index) # {} /\ \A step \in Steps(index) : step > 1440

\* Data of weekly frequency, anchored on the weekday of its timestamps
Weekly(index) == Steps(index) = {10080}

\* Data of quarterly frequency: month ends three months apart, anchored on
\* whichever month they fall in
Quarterly(index) ==
    /\ \A i \in 1..Len(index) :
          LET r == YMD(index[i].day) IN r.d = DaysInMonth(r.y, r.m)
    /\ \A i \in 1..(Len(index) - 1) :
          LET r == YMD(index[i].day)
              q == YMD(index[i + 1].day)
          IN  (q.y * 12 + q.m) - (r.y * 12 + r.m) = 3

\* The call of _transform is over
HolidayOver == hpc \in {"done", "raised"}

\* The flags of the calendar dates of an index
Flags(iso_code, index) ==
    [i \in 1..Len(index) |-> BoolToInt(IsHoliday(iso_code, index[i].day))]

\* C16: in binary mode a call on data finer than daily (hourly, 15-minute)
\* does not raise, and every timestamp of every segment is flagged 1 if its
\* calendar date is a holiday of the country and 0 otherwise
C16_SubDailyFlagged ==
    (hol.mode = "binary" /\ SubDaily(hol.index) /\ HolidayOver) =>
        /\ hpc = "done"
        /\ hout = [index |-> hol.index,
                   columns |-> [sg \in 1..hol.n_segments |->
                                   Flags(hol.iso_code, hol.index)]]

BinaryOrCategoryMessage ==
    "For binary and category modes frequency of data should be no more than daily."

\* C17: in binary or category mode a call on data coarser than one day
\* raises ValueError with the message of BinaryOrCategoryMessage and
\* produces no frame
C17_CoarserRaisesWithMessage ==
    (hol.mode \in {"binary", "category"} /\ CoarserThanDaily(hol.index)
        /\ HolidayOver) =>
        /\ hpc = "raised"
        /\ herr = [type |-> "ValueError", message |-> BinaryOrCategoryMessage]
        /\ hout = <<>>

C19_AnchoredAccepted ==
    (hol.mode = "days_count" /\ (Weekly(hol.index) \/ Quarterly(hol.index))
        /\ HolidayOver) =>
        /\ hpc = "done"
        /\ herr = NoError
        /\ hout # <<>>
        /\ hout.index = hol.index

\* --------------------------------- claims, detector: placements and sums
\* The first position of placement d of position i, and the positions the
\* placement covers: min(window_size, n) consecutive ones
PlacementStart(a, i, d) == start_idxs(a, i) + d

PlacementSpan(a, i, d) ==
    PlacementStart(a, i, d)..(PlacementStart(a, i, d) + RefSpan(a) - 1)

InBounds(a, i, d) ==
    /\ PlacementStart(a, i, d) >= 0
    /\ PlacementStart(a, i, d) + RefSpan(a) <= Len(a.series)

\* C21: for window_size >= 1, every placement d in 0..delta-1 of a position
\* contains the position and stays in bounds.
\* Violated: for idx >= window_size the placement d = 0 starts at
\* idx - window_size and covers idx - window_size .. idx - 1, not idx
C21_PlacementsContainIdx ==
    (Processed /\ args.window_size >= 1) =>
        \A d \in 0..(deltas(args, cur) - 1) :
            /\ cur \in PlacementSpan(args, cur, d)
            /\ InBounds(args, cur, d)

\* C21 amended: for window_size >= 1, every placement d in 0..delta-1 of a
\* position stays in bounds, and contains the position unless d = 0 and
\* idx >= window_size: that placement covers the window_size positions
\* before idx
C21_PlacementsInBounds ==
    (Processed /\ args.window_size >= 1) =>
        \A d \in 0..(deltas(args, cur) - 1) :
            /\ InBounds(args, cur, d)
            /\ cur \in PlacementSpan(args, cur, d)
                  <=> ~(d = 0 /\ cur >= args.window_size)
            /\ (d = 0 /\ cur >= args.window_size) =>
                  PlacementSpan(args, cur, d) = (cur - args.window_size)..(cur - 1)

\* C21 witness: the position window_size = n - window_size of a series,
\* flagged after all its window_size + 1 placements were evaluated
C21_Witness ==
    /\ Processed
    /\ args.window_size >= 2
    /\ cur = args.window_size
    /\ cur = n - args.window_size
    /\ outlier
    /\ Len(ests) = deltas(args, cur)

\* The positions of the series that the sub-sequence W of position i holds,
\* as the state records it: Len(closeness) positions from start
WPositions == start_idxs(args, cur)..(start_idxs(args, cur) + Len(closeness) - 1)

\* Every index used on closeness and num_close for placement d addresses an
\* element, and the negative one the right edge of the placement in W
IndexesExist(d) ==
    /\ InRange(closeness, d)
    /\ InRange(num_close, d)
    /\ InRange(num_close, -deltas(args, cur) + d)
    /\ Len(num_close) - deltas(args, cur) + d = RefSpan(args) + d - 1
    /\ Len(num_close) - deltas(args, cur) + d >= d

\* C22: for n >= 1 and window_size >= 1, W has length exactly
\* window_size + delta - 1, lies within 0..n-1 and is the union of the delta
\* placements; every index used on closeness and num_close exists and no
\* read raises.
\* Violated: for window_size > n the slice is cut at the end of the series
\* and W has n elements, fewer than window_size + delta - 1 = window_size
C22_SubSequenceExact ==
    (args.window_size >= 1) =>
        /\ pc # "raised"
        /\ Processed =>
              /\ Len(closeness) = args.window_size + deltas(args, cur) - 1
              /\ Len(num_close) = Len(closeness)
              /\ WPositions \subseteq 0..(n - 1)
              /\ WPositions = UNION {PlacementSpan(args, cur, d) :
                                        d \in 0..(deltas(args, cur) - 1)}
              /\ \A d \in 0..(deltas(args, cur) - 1) : IndexesExist(d)

\* C22 amended: for n >= 1 and window_size >= 1, W has length exactly
\* min(window_size, n) + delta - 1, lies within 0..n-1 and is the union of
\* the delta placements of min(window_size, n) positions; every index used
\* on closeness and num_close exists, -delta + d is the right edge of
\* placement d, and no read raises
C22_SubSequenceClamped ==
    (args.window_size >= 1) =>
        /\ pc # "raised"
        /\ Processed =>
              /\ Len(closeness) = RefSpan(args) + deltas(args, cur) - 1
              /\ Len(num_close) = Len(closeness)
              /\ WPositions \subseteq 0..(n - 1)
              /\ WPositions = UNION {PlacementSpan(args, cur, d) :
                                        d \in 0..(deltas(args, cur) - 1)}
              /\ \A d \in 0..(deltas(args, cur) - 1) : IndexesExist(d)

\* C22 witness: a position whose W holds 2 * window_size elements, all of
\* its window_size + 1 placements read
C22_Witness ==
    /\ Processed
    /\ args.window_size >= 2
    /\ Len(closeness) = 2 * args.window_size
    /\ Len(ests) = args.window_size + 1
    /\ ~outlier

\* The difference of prefix sums the code takes for placement d of the
\* position processed last
RawCount(d) ==
    PyGet(num_close, -deltas(args, cur) + d) - PyGet(num_close, d)

\* The number of positions of a set that are close to the position
\* processed last, counted directly on the series
CloseAmong(positions) ==
    Cardinality({k \in positions :
        is_close(args, args.series[k + 1], args.series[cur + 1])})

\* C23: for window_size >= 1 and every placement d of a position, the
\* difference num_close[-delta + d] - num_close[d] is
\* num_close[window_size + d - 1] - num_close[d] when window_size <= n, and
\* is the number of close positions among those of the placement but its
\* left edge; when start + d # idx the estimate compared is the number of
\* close positions of the whole placement, minus 1
C23_PrefixSumIdentity ==
    (Processed /\ args.window_size >= 1) =>
        \A d \in 0..(deltas(args, cur) - 1) :
            /\ args.window_size <= n =>
                  RawCount(d) = PyGet(num_close, args.window_size + d - 1)
                                  - PyGet(num_close, d)
            /\ RawCount(d) =
                  CloseAmong(PlacementPositions(args, cur, d)
                                \ {PlacementStart(args, cur, d)})
            /\ PlacementStart(args, cur, d) # cur =>
                  est_neighbors(closeness, num_close, start_idxs(args, cur),
                                deltas(args, cur), cur, d)
                    = CloseAmong(PlacementPositions(args, cur, d)) - 1
            /\ d < Len(ests) =>
                  ests[d + 1] = est_neighbors(closeness, num_close,
                                              start_idxs(args, cur),
                                              deltas(args, cur), cur, d)

\* C23 witness: a placement that holds the position away from its left
\* edge, whose left edge is close to it, with a non-zero difference of
\* prefix sums, evaluated after another placement
C23_Witness ==
    /\ Processed
    /\ args.window_size >= 2 /\ args.window_size <= n
    /\ \E d \in 1..(Len(ests) - 1) :
          /\ PlacementStart(args, cur, d) # cur
          /\ cur \in PlacementPositions(args, cur, d)
          /\ PyGet(closeness, d)
          /\ RawCount(d) >= 1
          /\ ests[d + 1] = RawCount(d)

\* The estimate of placement d of position i, from the flags and prefix
\* sums of i alone
EstimateOf(a, i, d) ==
    est_neighbors(Closeness(a, i), CumSum(Closeness(a, i)),
                  start_idxs(a, i), deltas(a, i), i, d)

\* The placements of position i whose estimate reaches n_neighbors
Qualifying(a, i) ==
    {d \in 0..(deltas(a, i) - 1) : EstimateOf(a, i, d) >= a.n_neighbors}

\* The placements of the position processed last whose estimate, from the
\* flags and prefix sums the state holds, reaches n_neighbors
QualifyingNow ==
    {d \in 0..(deltas(args, cur) - 1) :
        est_neighbors(closeness, num_close, start_idxs(args, cur),
                      deltas(args, cur), cur, d) >= args.n_neighbors}

\* C24: for window_size >= 1, a position is reported iff none of its delta
\* placements has an estimate >= n_neighbors; the loop stops at the first
\* qualifying placement, having evaluated all placements when there is
\* none; and the list returned holds a position iff none of that position's
\* own placements qualifies, whatever the verdicts of the others
C24_VerdictByPlacements ==
    (args.window_size >= 1) =>
        /\ Processed =>
              /\ outlier <=> QualifyingNow = {}
              /\ outlier <=> cur \in Range(outliers_indices)
              /\ outlier => Len(ests) = deltas(args, cur)
              /\ ~outlier =>
                    /\ Len(ests) - 1 \in QualifyingNow
                    /\ \A d \in QualifyingNow : Len(ests) - 1 <= d
        /\ pc = "done" =>
              \A i \in 0..(n - 1) :
                  i \in Range(outliers_indices) <=> Qualifying(args, i) = {}

\* C24 witness: a position kept by its second placement with placements
\* left unevaluated, one of which does not qualify, after a position that
\* was flagged
C24_Witness ==
    /\ Processed
    /\ ~outlier
    /\ Len(ests) = 2
    /\ Len(ests) < deltas(args, cur)
    /\ \E d \in Len(ests)..(deltas(args, cur) - 1) : d \notin QualifyingNow
    /\ outliers_indices # <<>>

\* The work done for the position processed last: the closeness predicate
\* is evaluated once per element of W and summed once, and each placement
\* evaluated is one estimate, read off the prefix sums
WorkBounded ==
    pc \in {"loop", "done", "raised"} =>
        /\ idx <= n
        /\ Len(closeness) <= 2 * args.window_size
        /\ Len(num_close) = Len(closeness)
        /\ Len(ests) <= args.window_size + 1

\* C25: the call ends, by a return or an exception, on every series, and
\* for each position the closeness predicate is evaluated on at most
\* 2 * window_size elements, in one pass with one prefix sum, and at most
\* window_size + 1 placements are checked, each by one estimate
C25_TerminatesLinear ==
    /\ []WorkBounded
    /\ <>(pc \in {"done", "raised"})

\* C25 witness: a position with 2 * window_size flags and
\* window_size + 1 placements checked, before the end of the series
C25_Witness ==
    /\ pc = "loop"
    /\ idx >= 1 /\ idx < n
    /\ args.window_size >= 2
    /\ Len(closeness) = 2 * args.window_size
    /\ Len(ests) = args.window_size + 1
    /\ outlier

\* ------------------------------------ claims, empty and one-element series
\* The column of the iteration in progress holds only missing values
AllMissing == column # <<>> /\ dropna(column).values = <<>>

\* C26: for the empty series the detector returns the empty list without
\* error, for the window_size and n_neighbors of every call, every
\* distance_threshold and every distance function; and a segment whose column holds only missing values
\* raises nothing, has the detector run on the empty series, and gets no
\* entry in the mapping
C26_EmptySeries ==
    /\ \A t \in 0..MaxThr, f \in {call.distance_func, Malformed} :
          get_segment_density_outliers_indices(
              Args(<<>>, call.window_size, Thr(t), call.n_neighbors, f))
             = [raised |-> FALSE, indices |-> <<>>]
    /\ AllMissing =>
          /\ apc \in {"read", "stored"}
          /\ detector_args(call, column, mean_rounds).series = <<>>
          /\ apc = "stored" =>
                /\ seg \in detector_ran
                /\ outliers_idxs = <<>>
                /\ seg \notin DOMAIN outliers_per_segment

\* C26 witness: the second segment holds only missing values and was passed
\* to the detector, the first has an entry
C26_Witness ==
    /\ apc = "stored"
    /\ AllMissing
    /\ seg_i = 1
    /\ seg \in detector_ran
    /\ DOMAIN outliers_per_segment = {Segments[1]}

\* C27: for a series of one element, window_size >= 1 and n_neighbors >= 1,
\* the call does not raise and returns [0], for every distance_threshold
\* and every distance function
C27_LonePointFlagged ==
    (n = 1 /\ args.window_size >= 1 /\ args.n_neighbors >= 1) =>
        /\ pc # "raised"
        /\ Processed => (outlier /\ ests = <<0>> /\ outliers_indices = <<0>>)

\* C27 witness: [0] returned for one element that is close to itself, with
\* a window longer than the series
C27_Witness ==
    /\ pc = "done"
    /\ n = 1
    /\ args.window_size > 1
    /\ is_close(args, args.series[1], args.series[1])
    /\ outliers_indices = <<0>>

\* --------------------------------------- claims, relations between calls
\* The series read from its last element to its first
Reversed(series) == [k \in 1..Len(series) |-> series[Len(series) + 1 - k]]

\* The result of the call on the reversed series
OfReversed ==
    get_segment_density_outliers_indices(
        [args EXCEPT !.series = Reversed(args.series)])

\* C28: with the default distance, position i is returned for the reversed
\* series iff position n - 1 - i is returned for the series, and the call
\* on the reversed series raises iff the call on the series does
C28_MirrorSymmetry ==
    DefaultDistance =>
        /\ pc = "done" =>
              /\ ~OfReversed.raised
              /\ \A i \in 0..(n - 1) :
                    i \in Range(OfReversed.indices)
                       <=> (n - 1 - i) \in Range(outliers_indices)
        /\ pc = "raised" => OfReversed.raised

\* C28 witness: a result that is not its own mirror image, the first
\* position returned and the last not, for a window shorter than the series
C28_Witness ==
    /\ pc = "done" /\ DefaultDistance
    /\ args.window_size >= 2 /\ args.window_size < n
    /\ 0 \in Range(outliers_indices)
    /\ (n - 1) \notin Range(outliers_indices)
    /\ (n - 1) \in Range(OfReversed.indices)

\* The set of positions returned with window_size replaced by w
OutliersWithWindow(w) ==
    Range(get_segment_density_outliers_indices(
              [args EXCEPT !.window_size = w]).indices)

\* C29: with the default distance, the outliers returned for any larger
\* window_size are among those returned for window_size >= 1, and the call
\* with the larger window_size does not raise
C29_WindowMonotone ==
    (pc = "done" /\ DefaultDistance) =>
        \A w \in (args.window_size + 1)..(MaxWindow + 1) :
            /\ ~get_segment_density_outliers_indices(
                    [args EXCEPT !.window_size = w]).raised
            /\ OutliersWithWindow(w) \subseteq Range(outliers_indices)

\* C29 witness: a window one position longer strictly shrinks the outlier
\* set without emptying it, both windows shorter than the series
C29_Witness ==
    /\ pc = "done" /\ DefaultDistance
    /\ args.window_size >= 2
    /\ args.window_size + 1 < n
    /\ OutliersWithWindow(args.window_size + 1) # Range(outliers_indices)
    /\ OutliersWithWindow(args.window_size + 1) # {}

\* ------------------------------------------------- claims, make_samples
\* The rows k, k + 1, ..., k + len - 1
RowsFrom(k, len) == [j \in 1..len |-> k + j - 1]

\* The rows of a slice of values_real, and the rows its shifted targets
\* were taken from
RowsOfReal(real) == [j \in 1..Len(real) |-> real[j].row]

ShiftedOfReal(real) == {real[j].target_shifted : j \in 1..Len(real)}

\* The row sequences of the decoder part of a sample
DecoderRows(sample) ==
    IF smp.net = "deepar"
    THEN {RowsOfReal(sample.decoder_real), sample.decoder_target}
    ELSE {sample.decoder_target, sample.decoder}

\* The rows a sample reads through its encoder and decoder parts
WindowRows(sample) ==
    IF smp.net = "deepar"
    THEN Range(RowsOfReal(sample.decoder_real))
           \cup ShiftedOfReal(sample.decoder_real)
           \cup Range(RowsOfReal(sample.encoder_real))
           \cup ShiftedOfReal(sample.encoder_real)
           \cup Range(sample.decoder_target) \cup Range(sample.encoder_target)
    ELSE Range(sample.decoder_target) \cup Range(sample.decoder)
           \cup Range(sample.encoder)

\* Every row a sample reads, the static features of TFTNativeNet included
ReadRows(sample) ==
    IF smp.net = "deepar"
    THEN WindowRows(sample)
    ELSE WindowRows(sample) \cup Range(sample.static)

ExpectedSamples == Max(0, smp.rows - smp.encoder_length - smp.decoder_length + 1)

\* The samples yielded so far are as claimed, and no more than claimed
SamplesAsClaimed ==
    /\ Len(samples) <= ExpectedSamples
    /\ spc = "done" => Len(samples) = ExpectedSamples
    /\ \A j \in 1..Len(samples) :
          /\ samples[j].start_idx = j - 1
          /\ j - 1 \in WindowRows(samples[j])
          /\ DecoderRows(samples[j]) =
                {RowsFrom(j - 1 + smp.encoder_length, smp.decoder_length)}
          /\ WindowRows(samples[j]) \subseteq
                (j - 1)..(j - 1 + smp.encoder_length + smp.decoder_length - 1)
          /\ ReadRows(samples[j]) \subseteq 0..(smp.rows - 1)

\* C30: for a frame of L rows, make_samples ends after yielding exactly
\* max(0, L - e - d + 1) samples; sample k starts at row k, its decoder part
\* covers rows k+e .. k+e+d-1 and it reads no row beyond L-1.
\* Violated: for L = 0, df["segment"].values[0] raises IndexError before
\* the loop
C30_SamplesOfFrame ==
    /\ [](spc # "raised" /\ SamplesAsClaimed)
    /\ <>(spc = "done")

\* C30 amended: the same for a frame of L >= 1 rows
C30_SamplesOfNonEmptyFrame ==
    /\ [](smp.rows >= 1 => (spc # "raised" /\ SamplesAsClaimed))
    /\ (smp.rows >= 1) ~> (spc = "done")

\* C30 witness: the generator of DeepARNetNew is exhausted after at least
\* two samples with encoder and decoder of at least two rows
C30_Witness ==
    /\ spc = "done"
    /\ smp.net = "deepar"
    /\ smp.encoder_length >= 2 /\ smp.decoder_length >= 2
    /\ Len(samples) >= 2
    /\ Len(samples) = ExpectedSamples

====
